---- MODULE Spec2Model ----
(***************************************************************************)
(* picoschema: translation of the picoschema shorthand (and of maps that   *)
(* already look like a JSON schema) into a jsonschema.Schema, and the      *)
(* canonicalisation of a schema for comparison.                            *)
(*                                                                         *)
(* A Go string is a sequence of one-character strings.  A value of type    *)
(* `any` is a record tagged by its dynamic type in field k.  A Go map has  *)
(* no order: a mapping is written as the sequence of its entries in the    *)
(* order of the document it was decoded from, and every `range` over it    *)
(* visits the entries in an arbitrary order.  An operator that ranges over *)
(* a map therefore yields the set of the results the runs can produce.     *)
(***************************************************************************)
EXTENDS Integers, Sequences, FiniteSets, TLC

VARIABLES val, calls, rets, schema, before, canon

vars == <<val, calls, rets, schema, before, canon>>

----------------------------------------------------------------------------
(* Dynamic values: the result of decoding YAML into a value of type any.   *)

Nil == [k |-> "nil"]
Bool(b) == [k |-> "bool", b |-> b]
GoInt(n) == [k |-> "int", n |-> n]
GoUint(n) == [k |-> "uint", n |-> n]
GoFloat(n) == [k |-> "float64", n |-> n]
Str(s) == [k |-> "string", s |-> s]
Slice(xs) == [k |-> "slice", xs |-> xs]
Map(ents) == [k |-> "map", ents |-> ents]
Entry(key, value) == [key |-> key, val |-> value]

Range(s) == {s[i] : i \in 1..Len(s)}

\* m[key] of a Go map: the value stored under key, or nil.
Lookup(m, key) ==
    IF \E i \in 1..Len(m.ents) : m.ents[i].key = key
    THEN m.ents[CHOOSE i \in 1..Len(m.ents) : m.ents[i].key = key].val
    ELSE Nil

\* The orders in which a range over the map can visit its entries.
RangeOrders(m) ==
    { [i \in 1..Len(m.ents) |-> m.ents[p[i]]] : p \in Permutations(1..Len(m.ents)) }

\* fmt's %T of a dynamic value.
GoType(x) ==
    [k |-> "type",
     name |-> CASE x.k = "nil" -> "<nil>"
             [] x.k = "slice" -> "[]interface {}"
             [] x.k = "map" -> "map[string]interface {}"
             [] OTHER -> x.k]

----------------------------------------------------------------------------
(* The string literals of the source.                                      *)

sString == <<"s", "t", "r", "i", "n", "g">>
sBoolean == <<"b", "o", "o", "l", "e", "a", "n">>
sNull == <<"n", "u", "l", "l">>
sNumber == <<"n", "u", "m", "b", "e", "r">>
sInteger == <<"i", "n", "t", "e", "g", "e", "r">>
sObject == <<"o", "b", "j", "e", "c", "t">>
sArray == <<"a", "r", "r", "a", "y">>
sAny == <<"a", "n", "y">>
sEnum == <<"e", "n", "u", "m">>
sStar == <<"*">>
sType == <<"t", "y", "p", "e">>
sProperties == <<"p", "r", "o", "p", "e", "r", "t", "i", "e", "s">>

\* The byte of a character: Go compares strings byte by byte.
Byte ==
    ("\t" :> 9) @@ (" " :> 32) @@ ("(" :> 40) @@ (")" :> 41) @@ ("*" :> 42) @@ ("," :> 44) @@
    ("?" :> 63) @@ ("A" :> 65) @@ ("B" :> 66) @@ ("C" :> 67) @@ ("D" :> 68) @@ ("E" :> 69) @@
    ("F" :> 70) @@ ("G" :> 71) @@ ("H" :> 72) @@ ("I" :> 73) @@ ("J" :> 74) @@ ("K" :> 75) @@
    ("L" :> 76) @@ ("M" :> 77) @@ ("N" :> 78) @@ ("O" :> 79) @@ ("P" :> 80) @@ ("Q" :> 81) @@
    ("R" :> 82) @@ ("S" :> 83) @@ ("T" :> 84) @@ ("U" :> 85) @@ ("V" :> 86) @@ ("W" :> 87) @@
    ("X" :> 88) @@ ("Y" :> 89) @@ ("Z" :> 90) @@ ("a" :> 97) @@ ("b" :> 98) @@ ("c" :> 99) @@
    ("d" :> 100) @@ ("e" :> 101) @@ ("f" :> 102) @@ ("g" :> 103) @@ ("h" :> 104) @@ ("i" :> 105) @@
    ("j" :> 106) @@ ("k" :> 107) @@ ("l" :> 108) @@ ("m" :> 109) @@ ("n" :> 110) @@ ("o" :> 111) @@
    ("p" :> 112) @@ ("q" :> 113) @@ ("r" :> 114) @@ ("s" :> 115) @@ ("t" :> 116) @@ ("u" :> 117) @@
    ("v" :> 118) @@ ("w" :> 119) @@ ("x" :> 120) @@ ("y" :> 121) @@ ("z" :> 122)

\* a < b on strings.
RECURSIVE StrLess(_, _)
StrLess(a, b) ==
    IF b = <<>> THEN FALSE
    ELSE IF a = <<>> THEN TRUE
    ELSE IF Byte[Head(a)] # Byte[Head(b)] THEN Byte[Head(a)] < Byte[Head(b)]
    ELSE StrLess(Tail(a), Tail(b))

\* strings.Cut(s, sep) for a one-byte separator.
Cut(s, sep) ==
    IF \E i \in 1..Len(s) : s[i] = sep
    THEN LET i == CHOOSE j \in 1..Len(s) :
                      s[j] = sep /\ \A h \in 1..(j - 1) : s[h] # sep
         IN [before |-> SubSeq(s, 1, i - 1), after |-> SubSeq(s, i + 1, Len(s)),
             found |-> TRUE]
    ELSE [before |-> s, after |-> <<>>, found |-> FALSE]

\* strings.CutSuffix(s, suffix) for a one-byte suffix.
CutSuffix(s, suffix) ==
    IF Len(s) > 0 /\ s[Len(s)] = suffix
    THEN [before |-> SubSeq(s, 1, Len(s) - 1), found |-> TRUE]
    ELSE [before |-> s, found |-> FALSE]

\* strings.TrimSuffix(s, suffix) for a one-byte suffix.
TrimSuffix(s, suffix) == CutSuffix(s, suffix).before

\* The white space of unicode.IsSpace, of which the strings here hold the
\* space and the tab.
IsSpace(c) == c \in {" ", "\t"}

RECURSIVE TrimLeft(_)
TrimLeft(s) ==
    IF s # <<>> /\ IsSpace(Head(s)) THEN TrimLeft(Tail(s)) ELSE s

RECURSIVE TrimRight(_)
TrimRight(s) ==
    IF s # <<>> /\ IsSpace(s[Len(s)]) THEN TrimRight(SubSeq(s, 1, Len(s) - 1)) ELSE s

\* strings.TrimSpace(s).
TrimSpace(s) == TrimRight(TrimLeft(s))

----------------------------------------------------------------------------
(* jsonschema.Schema, with one field or more of each type the mapper       *)
(* handles.  A nil pointer, slice or interface is Nil; Required holds the  *)
(* names, nil and empty alike.                                             *)

ZeroSchema ==
    [k |-> "schema", Type |-> <<>>, Description |-> <<>>, Enum |-> Nil,
     Properties |-> Nil, Items |-> Nil, Required |-> <<>>,
     AdditionalProperties |-> Nil, MinLength |-> Nil, MaxItems |-> Nil,
     UniqueItems |-> FALSE, Default |-> Nil, Maximum |-> <<>>, AnyOf |-> Nil]

\* jsonschema.FalseSchema, the schema that marshals to false.
FalseSchema == [k |-> "false"]

\* orderedmap.New and OrderedMap.Set: a new key goes last, a known key keeps
\* its place and takes the new value.
OMapNew == [k |-> "omap", ents |-> <<>>]

OMapSet(om, key, value) ==
    IF \E i \in 1..Len(om.ents) : om.ents[i].key = key
    THEN [om EXCEPT !.ents = [i \in 1..Len(om.ents) |->
                              IF om.ents[i].key = key THEN Entry(key, value) ELSE om.ents[i]]]
    ELSE [om EXCEPT !.ents = Append(@, Entry(key, value))]

OMapKeys(om) == [i \in 1..Len(om.ents) |-> om.ents[i].key]

\* A call's results: (schema, err).  The error is the chain of its wrapped
\* messages, outermost first; the empty chain is a nil error.
Ok(s) == [schema |-> s, err |-> <<>>]
Errorf(kind, field, arg) ==
    [schema |-> Nil, err |-> <<[kind |-> kind, field |-> field, arg |-> arg]>>]
Wrap(kind, field, arg, err) ==
    [schema |-> Nil, err |-> <<[kind |-> kind, field |-> field, arg |-> arg]>> \o err]

----------------------------------------------------------------------------
(* parsePico                                                               *)

ScalarTypes == {sString, sBoolean, sNull, sNumber, sInteger, sAny}

\* picoScalar with the description left as it is written.
picoScalarUntrimmed(s) ==
    LET c == Cut(s, ",")
        typ == IF c.before = sAny THEN <<>> ELSE c.before
    IN IF c.before \notin ScalarTypes
       THEN Errorf("unsupported scalar type", <<>>, Str(c.before))
       ELSE Ok([ZeroSchema EXCEPT !.Type = typ,
                                  !.Description = IF c.found THEN c.after ELSE <<>>])

\* case string
picoScalar(s) ==
    LET c == Cut(s, ",")
        typ == IF c.before = sAny THEN <<>> ELSE c.before
    IN IF c.before \notin ScalarTypes
       THEN Errorf("unsupported scalar type", <<>>, Str(c.before))
       ELSE Ok([ZeroSchema EXCEPT !.Type = typ,
                                  !.Description = IF c.found THEN TrimSpace(c.after)
                                                  ELSE <<>>])

\* case []any
picoEnum(x) == Ok([ZeroSchema EXCEPT !.Enum = x])

\* The object a mapping starts as.
picoObject ==
    [ZeroSchema EXCEPT !.Type = sObject, !.Properties = OMapNew,
                       !.AdditionalProperties = FalseSchema]

\* The first statements of the loop body: the key's parts and Required.
picoKey(key) ==
    LET c == Cut(key, "(")
        s == CutSuffix(c.before, "?")
    IN [name |-> c.before, typ |-> c.after, found |-> c.found,
        propertyName |-> s.before, isOptional |-> s.found]

picoRequire(ret, key) ==
    LET p == picoKey(key)
    IN IF p.name # <<>> /\ ~p.isOptional
       THEN [ret EXCEPT !.Required = Append(@, p.propertyName)]
       ELSE ret

\* picoEnumModifier without the null for an optional key.
picoEnumModifierNoNull(property, isOptional) ==
    IF property.Enum = Nil
    THEN Errorf("enum value is not an array", <<>>, property)
    ELSE Ok(property)

\* case "enum": the property, or the error.
picoEnumModifier(property, isOptional) ==
    IF property.Enum = Nil
    THEN Errorf("enum value is not an array", <<>>, property)
    ELSE IF isOptional
    THEN Ok([property EXCEPT !.Enum = Slice(Append(@.xs, Nil))])
    ELSE Ok(property)

\* picoWildcard without the assignment.
picoWildcardDropped(ret, property) == Ok(ret)

\* case "*"
picoWildcard(ret, property) == Ok([ret EXCEPT !.AdditionalProperties = property])

\* The rest of the loop body, once the value has parsed to property: the
\* object after this entry, or the error that ends the call.
picoProperty(ret, key, property) ==
    LET p == picoKey(key)
        c == Cut(TrimSuffix(TrimSuffix(p.typ, ")"), ")"), ",")
        typ == c.before
        describe(n) == IF c.found THEN [n EXCEPT !.Description = TrimSpace(c.after)]
                       ELSE n
        set(n) == Ok([ret EXCEPT !.Properties = OMapSet(@, p.propertyName, describe(n))])
    IN IF ~p.found
       THEN Ok([ret EXCEPT !.Properties = OMapSet(@, p.propertyName, property)])
       ELSE CASE typ = sArray ->
                   set([ZeroSchema EXCEPT !.Type = sArray, !.Items = property])
              [] typ = sObject -> set(property)
              [] typ = sEnum ->
                   LET enum == picoEnumModifier(property, p.isOptional)
                   IN IF enum.err # <<>> THEN enum ELSE set(enum.schema)
              [] typ = sStar -> picoWildcard(ret, property)
              [] OTHER -> Errorf("parenthetical type is none of", <<>>, Str(typ))

RECURSIVE parsePico(_), picoRange(_, _)

\* The loop over the entries still to visit, in the order of the visit.
picoRange(ents, ret) ==
    IF ents = <<>> THEN {Ok(ret)}
    ELSE LET e == Head(ents)
             required == picoRequire(ret, e.key)
         IN UNION { IF child.err # <<>> THEN {child}
                    ELSE LET step == picoProperty(required, e.key, child.schema)
                         IN IF step.err # <<>> THEN {step}
                            ELSE picoRange(Tail(ents), step.schema)
                    : child \in parsePico(e.val) }

parsePico(x) ==
    CASE x.k = "string" -> {picoScalar(x.s)}
      [] x.k = "slice" -> {picoEnum(x)}
      [] x.k = "map" -> UNION { picoRange(ents, picoObject) : ents \in RangeOrders(x) }
      [] OTHER -> {Errorf("is not an object, slice or string", <<>>, x)}

----------------------------------------------------------------------------
(* mapToJSONSchema                                                         *)

\* jsonMap: the type of the Schema field with the JSON name k.
FieldType(key) ==
    CASE key \in {sType, <<"d", "e", "s", "c", "r", "i", "p", "t", "i", "o", "n">>} -> "string"
      [] key \in {<<"m", "i", "n", "L", "e", "n", "g", "t", "h">>, <<"m", "a", "x", "I", "t", "e", "m", "s">>} -> "*uint64"
      [] key = <<"u", "n", "i", "q", "u", "e", "I", "t", "e", "m", "s">> -> "bool"
      [] key = <<"r", "e", "q", "u", "i", "r", "e", "d">> -> "[]string"
      [] key = <<"m", "a", "x", "i", "m", "u", "m">> -> "json.Number"
      [] key \in {<<"i", "t", "e", "m", "s">>, <<"a", "d", "d", "i", "t", "i", "o", "n", "a", "l", "P", "r", "o", "p", "e", "r", "t", "i", "e", "s">>} -> "*Schema"
      [] key = <<"a", "n", "y", "O", "f">> -> "[]*Schema"
      [] key = sProperties -> "*OrderedMap"
      [] key = <<"d", "e", "f", "a", "u", "l", "t">> -> "any"
      [] key = <<"e", "n", "u", "m">> -> "[]any"
      [] OTHER -> "none"

\* rf.Set: the schema with the field of JSON name key set.
SetField(ret, key, x) ==
    CASE key = sType -> [ret EXCEPT !.Type = x]
      [] key = <<"d", "e", "s", "c", "r", "i", "p", "t", "i", "o", "n">> -> [ret EXCEPT !.Description = x]
      [] key = <<"m", "i", "n", "L", "e", "n", "g", "t", "h">> -> [ret EXCEPT !.MinLength = x]
      [] key = <<"m", "a", "x", "I", "t", "e", "m", "s">> -> [ret EXCEPT !.MaxItems = x]
      [] key = <<"u", "n", "i", "q", "u", "e", "I", "t", "e", "m", "s">> -> [ret EXCEPT !.UniqueItems = x]
      [] key = <<"r", "e", "q", "u", "i", "r", "e", "d">> -> [ret EXCEPT !.Required = x]
      [] key = <<"m", "a", "x", "i", "m", "u", "m">> -> [ret EXCEPT !.Maximum = x]
      [] key = <<"i", "t", "e", "m", "s">> -> [ret EXCEPT !.Items = x]
      [] key = <<"a", "d", "d", "i", "t", "i", "o", "n", "a", "l", "P", "r", "o", "p", "e", "r", "t", "i", "e", "s">> -> [ret EXCEPT !.AdditionalProperties = x]
      [] key = <<"a", "n", "y", "O", "f">> -> [ret EXCEPT !.AnyOf = x]
      [] key = sProperties -> [ret EXCEPT !.Properties = x]
      [] key = <<"d", "e", "f", "a", "u", "l", "t">> -> [ret EXCEPT !.Default = x]

\* A uint64 is its four 16-bit limbs, most significant first.
Uint64(n) == [k |-> "uint64", limbs |-> <<0, 0, n \div 2^16, n % 2^16>>]

\* uint64(i) of a signed integer: i modulo 2^64.
Uint64OfInt(i) ==
    IF i >= 0 THEN Uint64(i)
    ELSE LET m == 0 - i
             lo == m % 2^16
             hi == m \div 2^16
             borrow == IF lo = 0 THEN 0 ELSE 1
         IN [k |-> "uint64",
             limbs |-> <<2^16 - 1, 2^16 - 1, (2^16 - hi - borrow) % 2^16,
                         (2^16 - lo) % 2^16>>]

\* case reflect.TypeFor[*uint64]()
mapUint64(key, x) ==
    CASE x.k = "uint" -> Ok(Uint64(x.n))
      [] x.k = "int" -> Ok(Uint64OfInt(x.n))
      [] OTHER -> Errorf("found type for field, want an integer type", key, GoType(x))

\* case reflect.TypeFor[[]string]()
mapStrings(key, x) ==
    IF x.k # "slice"
    THEN Errorf("found type for field, want []interface {}", key, GoType(x))
    ELSE IF \E i \in 1..Len(x.xs) : x.xs[i].k # "string"
    THEN LET i == CHOOSE j \in 1..Len(x.xs) :
                      x.xs[j].k # "string" /\ \A h \in 1..(j - 1) : x.xs[h].k = "string"
         IN Errorf("found type for field element, want string", key,
                   [k |-> "element", i |-> i - 1, type |-> GoType(x.xs[i])])
    ELSE Ok([i \in 1..Len(x.xs) |-> x.xs[i].s])

RECURSIVE mapToJSONSchema(_), mapRange(_, _), mapField(_, _), mapProperties(_, _, _)

\* The range over the entries of a properties map still to visit.
mapProperties(key, ents, om) ==
    IF ents = <<>> THEN {Ok(om)}
    ELSE LET e == Head(ents)
         IN IF e.val.k # "map"
            THEN {Errorf("found type for field key, want map[string]interface {}", key,
                         [k |-> "key", key |-> e.key, type |-> GoType(e.val)])}
            ELSE UNION { IF r.err # <<>>
                         THEN {Wrap("error in field key", key, Str(e.key), r.err)}
                         ELSE mapProperties(key, Tail(ents), OMapSet(om, e.key, r.schema))
                         : r \in mapToJSONSchema(e.val) }

\* The switch on the field's type: the value to set, in .schema, or the error.
\* (For a field of type any, reflect.ValueOf of a nil value cannot be set;
\* no map here holds nil for such a field.)
mapField(key, x) ==
    LET t == FieldType(key)
    IN CASE t = "any" -> {Ok(x)}
         [] t = "string" ->
              {IF x.k = "string" THEN Ok(x.s)
               ELSE Errorf("found type for field, want string", key, GoType(x))}
         [] t = "*uint64" -> {mapUint64(key, x)}
         [] t = "bool" ->
              {IF x.k = "bool" THEN Ok(x.b)
               ELSE Errorf("found type for field, want bool", key, GoType(x))}
         [] t = "[]string" -> {mapStrings(key, x)}
         [] t = "json.Number" ->
              {IF x.k = "string" THEN Ok(x.s)
               ELSE Errorf("found type for field, want string", key, GoType(x))}
         [] t = "*Schema" ->
              IF x.k # "map"
              THEN {Errorf("found type for field, want map[string]interface {}", key,
                           GoType(x))}
              ELSE { IF r.err # <<>>
                     THEN Wrap("failed to convert field", key, Nil, r.err)
                     ELSE r : r \in mapToJSONSchema(x) }
         [] t = "[]*Schema" ->
              \* no decoded value is a []map[string]any
              {Errorf("found type for field, want []map[string]interface {}", key,
                      GoType(x))}
         [] t = "*OrderedMap" ->
              IF x.k # "map"
              THEN {Errorf("found type for field, want map[string]interface {}", key,
                           GoType(x))}
              ELSE UNION { mapProperties(key, ents, OMapNew) : ents \in RangeOrders(x) }
         [] OTHER -> {Errorf("unsupported JSONSchema field type", key, Nil)}

\* The range over the entries of m still to visit.
mapRange(ents, ret) ==
    IF ents = <<>> THEN {Ok(ret)}
    ELSE LET e == Head(ents)
         IN IF FieldType(e.key) = "none"
            THEN {Errorf("unrecognized JSON schema field name", e.key, Nil)}
            ELSE UNION { IF f.err # <<>> THEN {f}
                         ELSE mapRange(Tail(ents), SetField(ret, e.key, f.schema))
                         : f \in mapField(e.key, e.val) }

mapToJSONSchema(m) ==
    UNION { mapRange(ents, ZeroSchema) : ents \in RangeOrders(m) }

----------------------------------------------------------------------------
(* ToJSONSchema                                                            *)

JSONSchemaTypes == {sString, sBoolean, sNull, sNumber, sInteger, sObject, sArray}

\* ToJSONSchema without the type set to object for a properties map.
ToJSONSchemaTypeKept(x) ==
    IF x = Nil THEN {Ok(Nil)}
    ELSE IF x.k = "map" /\ Lookup(x, sType).k = "string"
                        /\ Lookup(x, sType).s \in JSONSchemaTypes
    THEN mapToJSONSchema(x)
    ELSE IF x.k = "map" /\ Lookup(x, sProperties).k = "map"
    THEN mapToJSONSchema(x)
    ELSE parsePico(x)

ToJSONSchema(x) ==
    IF x = Nil THEN {Ok(Nil)}
    ELSE IF x.k = "map" /\ Lookup(x, sType).k = "string"
                        /\ Lookup(x, sType).s \in JSONSchemaTypes
    THEN mapToJSONSchema(x)
    ELSE IF x.k = "map" /\ Lookup(x, sProperties).k = "map"
    THEN { IF r.err # <<>> THEN r ELSE Ok([r.schema EXCEPT !.Type = sObject])
           : r \in mapToJSONSchema(x) }
    ELSE parsePico(x)

----------------------------------------------------------------------------
(* ConvertSchema                                                           *)

RECURSIVE Insert(_, _)
Insert(x, xs) ==
    IF xs = <<>> THEN <<x>>
    ELSE IF StrLess(Head(xs), x) THEN <<Head(xs)>> \o Insert(x, Tail(xs))
    ELSE <<x>> \o xs

\* slices.Sort on a []string.
RECURSIVE Sort(_)
Sort(xs) == IF xs = <<>> THEN <<>> ELSE Insert(Head(xs), Sort(Tail(xs)))

\* sortSchemaSlices without the descent into Properties and Items.
sortSchemaSlicesShallow(s) == [s EXCEPT !.Required = Sort(@)]

RECURSIVE sortSchemaSlices(_)
sortSchemaSlices(s) ==
    [s EXCEPT !.Required = Sort(@),
              !.Properties =
                  IF @ = Nil THEN Nil
                  ELSE [@ EXCEPT !.ents = [i \in 1..Len(@) |->
                                           Entry(@[i].key, sortSchemaSlices(@[i].val))]],
              !.Items = IF @ = Nil THEN Nil ELSE sortSchemaSlices(@)]

\* A float64 that holds a whole number: its sign and its magnitude in five
\* 16-bit limbs, most significant first.
Float64(neg, limbs) == [k |-> "float64", neg |-> neg, limbs |-> limbs]

Float64OfInt(i) ==
    LET m == IF i < 0 THEN 0 - i ELSE i
    IN Float64(i < 0, <<0, 0, 0, m \div 2^16, m % 2^16>>)

\* limbs + 2^d, for d < 16.
AddPow2(limbs, d) ==
    LET s5 == limbs[5] + 2^d
        s4 == limbs[4] + s5 \div 2^16
        s3 == limbs[3] + s4 \div 2^16
        s2 == limbs[2] + s3 \div 2^16
        s1 == limbs[1] + s2 \div 2^16
    IN <<s1, s2 % 2^16, s3 % 2^16, s4 % 2^16, s5 % 2^16>>

\* The float64 nearest to a uint64, ties to even: what decoding its decimal
\* text into an any yields.  A float64 has 53 bits of mantissa.
Float64OfUint64(u) ==
    LET l == u.limbs
        wide == <<0>> \o l
    IN IF l[1] < 2^5 THEN Float64(FALSE, wide)
       ELSE LET bits == CHOOSE b \in 6..16 : 2^(b - 1) <= l[1] /\ l[1] < 2^b
                d == bits - 5
                r == l[4] % 2^d
                down == [wide EXCEPT ![5] = l[4] - r]
                up == r > 2^(d - 1) \/ (r = 2^(d - 1) /\ (l[4] \div 2^d) % 2 = 1)
            IN Float64(FALSE, IF up THEN AddPow2(down, d) ELSE down)

Digits == {"0", "1", "2", "3", "4", "5", "6", "7", "8", "9"}

\* Whether a json.Number is a JSON number literal, for the literals without
\* sign, fraction and exponent.
IsNumberLiteral(s) ==
    /\ s # <<>>
    /\ \A i \in 1..Len(s) : s[i] \in Digits
    /\ (Len(s) > 1 => s[1] # "0")

RECURSIVE NumberValue(_)
NumberValue(s) ==
    IF s = <<>> THEN 0
    ELSE 10 * NumberValue(SubSeq(s, 1, Len(s) - 1))
         + (CHOOSE n \in 0..9 : ToString(n) = s[Len(s)])

\* An object decoded into a map[string]any: a function of its keys.
Object(pairs) ==
    [k |-> "object",
     fields |-> [key \in {p.key : p \in pairs} |->
                (CHOOSE p \in pairs : p.key = key).val]]

\* json.Marshal then json.Unmarshal into an any, of a dynamic value.
RECURSIVE jsonAny(_)
jsonAny(x) ==
    CASE x.k \in {"int", "uint", "float64"} -> Float64OfInt(x.n)
      [] x.k = "slice" -> Slice([i \in 1..Len(x.xs) |-> jsonAny(x.xs[i])])
      [] x.k = "map" -> Object({Entry(e.key, jsonAny(e.val)) : e \in Range(x.ents)})
      [] OTHER -> x

\* (A schema whose only set field is an empty, non-nil Required marshals to
\* {} and not to true; Required does not tell the two apart here.)
\* Schema.MarshalJSON then json.Unmarshal into an any: false and true for the
\* false schema and the schema with nothing set, and else the object of the
\* fields that omitempty keeps.
RECURSIVE jsonSchema(_)
jsonSchema(s) ==
    IF s = FalseSchema THEN Bool(FALSE)
    ELSE IF s = ZeroSchema THEN Bool(TRUE)
    ELSE Object(
        {Entry(sType, Str(s.Type)) : x \in {1} \ {IF s.Type = <<>> THEN 1 ELSE 0}}
        \cup {Entry(<<"d", "e", "s", "c", "r", "i", "p", "t", "i", "o", "n">>, Str(s.Description)) :
                  x \in {1} \ {IF s.Description = <<>> THEN 1 ELSE 0}}
        \cup {Entry(<<"e", "n", "u", "m">>, jsonAny(s.Enum)) :
                  x \in {1} \ {IF s.Enum = Nil \/ s.Enum = Slice(<<>>) THEN 1 ELSE 0}}
        \cup {Entry(sProperties,
                    Object({Entry(e.key, jsonSchema(e.val)) : e \in Range(s.Properties.ents)})) :
                  x \in {1} \ {IF s.Properties = Nil THEN 1 ELSE 0}}
        \cup {Entry(<<"i", "t", "e", "m", "s">>, jsonSchema(s.Items)) :
                  x \in {1} \ {IF s.Items = Nil THEN 1 ELSE 0}}
        \cup {Entry(<<"r", "e", "q", "u", "i", "r", "e", "d">>, Slice([i \in 1..Len(s.Required) |-> Str(s.Required[i])])) :
                  x \in {1} \ {IF s.Required = <<>> THEN 1 ELSE 0}}
        \cup {Entry(<<"a", "d", "d", "i", "t", "i", "o", "n", "a", "l", "P", "r", "o", "p", "e", "r", "t", "i", "e", "s">>, jsonSchema(s.AdditionalProperties)) :
                  x \in {1} \ {IF s.AdditionalProperties = Nil THEN 1 ELSE 0}}
        \cup {Entry(<<"m", "i", "n", "L", "e", "n", "g", "t", "h">>, Float64OfUint64(s.MinLength)) :
                  x \in {1} \ {IF s.MinLength = Nil THEN 1 ELSE 0}}
        \cup {Entry(<<"m", "a", "x", "I", "t", "e", "m", "s">>, Float64OfUint64(s.MaxItems)) :
                  x \in {1} \ {IF s.MaxItems = Nil THEN 1 ELSE 0}}
        \cup {Entry(<<"u", "n", "i", "q", "u", "e", "I", "t", "e", "m", "s">>, Bool(TRUE)) :
                  x \in {1} \ {IF s.UniqueItems THEN 0 ELSE 1}}
        \cup {Entry(<<"d", "e", "f", "a", "u", "l", "t">>, jsonAny(s.Default)) :
                  x \in {1} \ {IF s.Default = Nil THEN 1 ELSE 0}}
        \cup {Entry(<<"m", "a", "x", "i", "m", "u", "m">>, Float64OfInt(NumberValue(s.Maximum))) :
                  x \in {1} \ {IF s.Maximum = <<>> THEN 1 ELSE 0}})

\* The schemas json.Marshal visits from s.
RECURSIVE Nodes(_)
Nodes(s) ==
    IF s = Nil \/ s = FalseSchema THEN {}
    ELSE {s} \cup Nodes(s.Items) \cup Nodes(s.AdditionalProperties)
             \cup (IF s.Properties = Nil THEN {}
                   ELSE UNION { Nodes(e.val) : e \in Range(s.Properties.ents) })

\* ConvertSchema(s): s as the call leaves it, and the call's results.
ConvertSchema(s) ==
    LET sorted == sortSchemaSlices(s)
    IN IF \E n \in Nodes(sorted) : n.Maximum # <<>> /\ ~IsNumberLiteral(n.Maximum)
       THEN [s |-> sorted, value |-> Nil, err |-> "json: invalid number literal"]
       ELSE [s |-> sorted, value |-> jsonSchema(sorted), err |-> ""]

----------------------------------------------------------------------------
(* The values the calls are made on.                                       *)

MaxEntries == 2
MaxCalls == 2
MaxConverts == 2

ScalarInputs ==
    { Str(t \o d) :
        t \in ScalarTypes \cup {<<>>, <<"x">>, <<" ", "s", "t", "r", "i", "n", "g">>, <<"s", "t", "r", "i", "n", "g", "s">>},
        d \in {<<>>, <<",">>, <<",", " ", "d">>, <<",", "d", " ">>, <<",", " ", "d", ",", "e">>, <<",", "\t", " ", "d", " ", "e", "\t", " ">>} }

OtherInputs ==
    { Nil, Bool(TRUE), GoInt(5), GoFloat(2), Slice(<<>>),
      Slice(<<Str(<<"r">>), Str(<<"g">>)>>), Slice(<<GoInt(1), Nil>>) }

\* The mappings of at most n entries of es, with distinct keys, in every
\* order a document can list them.
RECURSIVE Mappings(_, _)
Mappings(es, n) ==
    IF n = 0 THEN {<<>>}
    ELSE LET shorter == Mappings(es, n - 1)
         IN shorter \cup
            { Append(m, e) : <<m, e>> \in
                { x \in shorter \X es :
                    /\ Len(x[1]) = n - 1
                    /\ \A i \in 1..(n - 1) : x[1][i].key # x[2].key } }

\* A nested mapping whose two required names are listed out of order.
NestedInput == Map(<<Entry(<<"b">>, Str(sString)), Entry(<<"a">>, Str(sInteger))>>)

PicoKeys ==
    { <<"a">>, <<"b", "?">>, <<"c", "(", "e", "n", "u", "m", ")">>, <<"c", "?", "(", "e", "n", "u", "m", ")">>, <<"c", "?", "(", "e", "n", "u", "m", ",", " ", "d", ")">>, <<"t", "(", "a", "r", "r", "a", "y", ",", " ", "d", ")">>,
      <<"o", "(", "o", "b", "j", "e", "c", "t", ")">>, <<"*">>, <<"(", "*", ")">>, <<"f", "(", "*", ")">>, <<"?", "(", "*", ",", " ", "d", ")">>, <<"z", "(", "b", "a", "d", ")">>, <<"e", "(", "e", "n", "u", "m">>,
      <<"g", "(", "a", "r", "r", "a", "y", ")", ")", ")">>, <<"(", "e", "n", "u", "m", ")">>, <<"?", "(", "e", "n", "u", "m", ")">>, <<"h", "(", "e", "n", "u", "m", ")", ")">>, <<>>, <<"?">> }

PicoValues ==
    { Str(sString), Str(<<"i", "n", "t", "e", "g", "e", "r", ",", " ", "d">>), Str(<<"x">>), GoInt(5), Slice(<<>>),
      Slice(<<Str(<<"r">>), Str(<<"g">>)>>), NestedInput,
      Map(<<Entry(<<"f", "(", "*", ")">>, Str(sAny))>>) }

\* Entries for the mappings of several entries.  Names that are required
\* or optional, with values that convert or fail:
OrderEntries ==
    { Entry(key, x) : key \in { <<"b">>, <<"a">>, <<"c", "?">> },
                      x \in { Str(sString), Str(<<"x">>), Str(<<"y">>) } }

\* keys with the modifier *, with and without a name, next to a plain key:
WildcardEntries ==
    { Entry(key, x) : key \in { <<"(", "*", ")">>, <<"f", "(", "*", ")">>, <<"a">> },
                      x \in { Str(sString), Slice(<<Str(<<"r">>)>>) } }

\* and keys with the modifier enum, one of them sharing its name with a
\* plain key, with values that are sequences, convert or fail.
EnumEntries ==
    { Entry(key, x) : key \in { <<"c", "?", "(", "e", "n", "u", "m", ")">>, <<"c">>, <<"d", "(", "e", "n", "u", "m", ")">>, <<"a">> },
                      x \in { Str(sString), Str(<<"x">>), Slice(<<Str(<<"r">>)>>) } }

\* The mapping {"name": "string", "age?": "integer"}.
NameAgeInput ==
    Map(<<Entry(<<"n", "a", "m", "e">>, Str(sString)), Entry(<<"a", "g", "e", "?">>, Str(sInteger))>>)

PicoInputs ==
    { Map(<<Entry(key, x)>>) : key \in PicoKeys, x \in PicoValues }
    \cup {NameAgeInput}
    \cup { Map(m) : m \in Mappings(OrderEntries, MaxEntries)
                         \cup Mappings(WildcardEntries, MaxEntries)
                         \cup Mappings(EnumEntries, MaxEntries) }

StringSchema == Map(<<Entry(sType, Str(sString))>>)

\* Entries of maps that look like a JSON schema, or almost.
SchemaEntries ==
    { Entry(sType, Str(sObject)), Entry(sType, Str(sString)), Entry(sType, Str(sAny)),
      Entry(sType, GoInt(1)),
      Entry(sProperties, Map(<<Entry(<<"p">>, StringSchema)>>)),
      Entry(sProperties,
            Map(<<Entry(<<"q">>, Map(<<Entry(sType, Str(sObject)),
                                     Entry(<<"r", "e", "q", "u", "i", "r", "e", "d">>,
                                           Slice(<<Str(<<"b">>), Str(<<"a">>)>>))>>)),
                  Entry(<<"p">>, StringSchema)>>)),
      Entry(sProperties, Map(<<Entry(<<"p">>, Str(sString))>>)),
      Entry(sProperties, Map(<<Entry(<<"p">>, Map(<<Entry(<<"b", "o", "g", "u", "s">>, Str(sString))>>))>>)),
      Entry(sProperties, Str(sString)),
      Entry(<<"m", "i", "n", "L", "e", "n", "g", "t", "h">>, GoInt(3)), Entry(<<"m", "i", "n", "L", "e", "n", "g", "t", "h">>, GoInt(0 - 1)),
      Entry(<<"m", "i", "n", "L", "e", "n", "g", "t", "h">>, GoInt(0 - 65536)), Entry(<<"m", "i", "n", "L", "e", "n", "g", "t", "h">>, GoUint(7)),
      Entry(<<"m", "i", "n", "L", "e", "n", "g", "t", "h">>, GoFloat(3)), Entry(<<"m", "i", "n", "L", "e", "n", "g", "t", "h">>, Str(<<"x">>)),
      Entry(<<"m", "a", "x", "I", "t", "e", "m", "s">>, GoInt(0 - 2)), Entry(<<"m", "a", "x", "I", "t", "e", "m", "s">>, GoInt(0)),
      Entry(<<"u", "n", "i", "q", "u", "e", "I", "t", "e", "m", "s">>, Bool(TRUE)), Entry(<<"u", "n", "i", "q", "u", "e", "I", "t", "e", "m", "s">>, Str(<<"x">>)),
      Entry(<<"r", "e", "q", "u", "i", "r", "e", "d">>, Slice(<<Str(<<"b">>), Str(<<"a">>)>>)),
      Entry(<<"r", "e", "q", "u", "i", "r", "e", "d">>, Slice(<<Str(<<"a">>), GoInt(5), Nil>>)),
      Entry(<<"r", "e", "q", "u", "i", "r", "e", "d">>, Str(<<"a">>)),
      Entry(<<"m", "a", "x", "i", "m", "u", "m">>, Str(<<"5">>)), Entry(<<"m", "a", "x", "i", "m", "u", "m">>, Str(<<"x">>)),
      Entry(<<"m", "a", "x", "i", "m", "u", "m">>, GoInt(5)),
      Entry(<<"i", "t", "e", "m", "s">>, Map(<<Entry(<<"r", "e", "q", "u", "i", "r", "e", "d">>, Slice(<<Str(<<"b">>), Str(<<"a">>)>>))>>)),
      Entry(<<"i", "t", "e", "m", "s">>, Map(<<Entry(<<"m", "i", "n", "L", "e", "n", "g", "t", "h">>, Str(<<"x">>))>>)),
      Entry(<<"i", "t", "e", "m", "s">>, Str(sString)),
      Entry(<<"a", "d", "d", "i", "t", "i", "o", "n", "a", "l", "P", "r", "o", "p", "e", "r", "t", "i", "e", "s">>, Map(<<>>)),
      Entry(<<"a", "n", "y", "O", "f">>, Slice(<<StringSchema>>)),
      Entry(<<"d", "e", "f", "a", "u", "l", "t">>, Slice(<<GoInt(0 - 5), Str(<<"x">>)>>)),
      Entry(<<"e", "n", "u", "m">>, Slice(<<Str(<<"r">>)>>)),
      Entry(<<"d", "e", "s", "c", "r", "i", "p", "t", "i", "o", "n">>, Str(<<" ", "d", " ">>)), Entry(<<"d", "e", "s", "c", "r", "i", "p", "t", "i", "o", "n">>, Bool(TRUE)),
      Entry(<<"b", "o", "g", "u", "s">>, Str(sString)) }

\* Entries for the maps of several entries that look like a JSON schema.
SchemaOrderEntries ==
    { Entry(sType, Str(sObject)), Entry(sType, Str(sAny)),
      Entry(sProperties,
            Map(<<Entry(<<"q">>, StringSchema),
                  Entry(<<"p">>, Map(<<Entry(<<"r", "e", "q", "u", "i", "r", "e", "d">>,
                                           Slice(<<Str(<<"b">>), Str(<<"a">>)>>))>>))>>)),
      Entry(<<"m", "i", "n", "L", "e", "n", "g", "t", "h">>, GoInt(0 - 1)), Entry(<<"m", "i", "n", "L", "e", "n", "g", "t", "h">>, Str(<<"x">>)),
      Entry(<<"r", "e", "q", "u", "i", "r", "e", "d">>, Slice(<<Str(<<"b">>), Str(<<"a">>)>>)),
      Entry(<<"b", "o", "g", "u", "s">>, Str(sString)) }

\* Each entry alone, each with a type before it, and the maps of several
\* entries that hold a type or a properties entry.
SchemaInputs ==
    { Map(<<e>>) : e \in SchemaEntries }
    \cup { Map(<<Entry(sType, Str(sString)), e>>) :
             e \in { x \in SchemaEntries : x.key # sType } }
    \cup { Map(m) : m \in { x \in Mappings(SchemaOrderEntries, MaxEntries) :
                               \E i \in 1..Len(x) : x[i].key \in {sType, sProperties} } }

Inputs == ScalarInputs \cup OtherInputs \cup PicoInputs \cup SchemaInputs

----------------------------------------------------------------------------
(* A caller: it converts a value, perhaps again, and then brings the       *)
(* schema it got to the canonical form, perhaps again.  calls counts the   *)
(* calls of ToJSONSchema and rets holds what the last two returned; schema *)
(* is the Schema the last one returned, as it now is; before holds it as   *)
(* each call of ConvertSchema found it, and canon what each returned.      *)

Init ==
    /\ val \in Inputs
    /\ calls = 0
    /\ rets = <<>>
    /\ schema = Nil
    /\ before = <<>>
    /\ canon = <<>>

CallToJSONSchema ==
    /\ calls < MaxCalls
    /\ before = <<>>
    /\ \E r \in ToJSONSchema(val) :
          /\ rets' = IF rets = <<>> THEN <<r>> ELSE <<rets[Len(rets)], r>>
          /\ schema' = r.schema
    /\ calls' = calls + 1
    /\ UNCHANGED <<val, before, canon>>

CallConvertSchema ==
    /\ rets # <<>>
    /\ schema # Nil
    /\ Len(before) < MaxConverts
    /\ LET c == ConvertSchema(schema)
       IN /\ before' = Append(before, schema)
          /\ schema' = c.s
          /\ canon' = Append(canon, [value |-> c.value, err |-> c.err])
    /\ UNCHANGED <<val, calls, rets>>

Next == CallToJSONSchema \/ CallConvertSchema

Spec == Init /\ [][Next]_vars

----------------------------------------------------------------------------
(* What the properties below speak of.                                     *)

\* The results of the calls of ToJSONSchema made so far.
Returned == Range(rets)
Succeeded == { r \in Returned : r.err = <<>> /\ r.schema # Nil }

IsMapping(x) == x.k = "map"
Entries(x) == Range(x.ents)

\* The mapping holds `type` with one of the seven JSON schema type names.
HasSchemaType(x) ==
    /\ IsMapping(x)
    /\ \E e \in Entries(x) :
          /\ e.key = <<"t", "y", "p", "e">>
          /\ e.val \in { Str(<<"s", "t", "r", "i", "n", "g">>), Str(<<"b", "o", "o", "l", "e", "a", "n">>), Str(<<"n", "u", "l", "l">>),
                         Str(<<"n", "u", "m", "b", "e", "r">>), Str(<<"i", "n", "t", "e", "g", "e", "r">>), Str(<<"o", "b", "j", "e", "c", "t">>),
                         Str(<<"a", "r", "r", "a", "y">>) }

\* The mapping holds `properties` with a mapping.
HasPropertiesMap(x) ==
    /\ IsMapping(x)
    /\ \E e \in Entries(x) : e.key = <<"p", "r", "o", "p", "e", "r", "t", "i", "e", "s">> /\ IsMapping(e.val)

\* A mapping that the shorthand grammar gets.
IsShorthandMapping(x) == IsMapping(x) /\ ~HasSchemaType(x) /\ ~HasPropertiesMap(x)

\* The parts of a shorthand key: the text before the first "(", that text
\* without its trailing "?", and the text after the first "(".
FirstIndex(s, c) ==
    IF \E i \in 1..Len(s) : s[i] = c
    THEN CHOOSE i \in 1..Len(s) : s[i] = c /\ \A j \in 1..Len(s) : s[j] = c => i <= j
    ELSE Len(s) + 1
KeyName(key) == SubSeq(key, 1, FirstIndex(key, "(") - 1)
KeyOptional(key) == KeyName(key) # <<>> /\ KeyName(key)[Len(KeyName(key))] = "?"
KeyProperty(key) ==
    IF KeyOptional(key) THEN SubSeq(KeyName(key), 1, Len(KeyName(key)) - 1)
    ELSE KeyName(key)
KeyParenthetical(key) == SubSeq(key, FirstIndex(key, "(") + 1, Len(key))

\* The key carries the modifier m: its parenthetical is m, then nothing, a
\* comma and a description, or one or two closing marks.
KeyHasModifier(key, m) ==
    LET p == KeyParenthetical(key)
        rest == SubSeq(p, Len(m) + 1, Len(p))
        closed == IF rest # <<>> /\ rest[Len(rest)] = ")"
                  THEN SubSeq(rest, 1, Len(rest) - 1) ELSE rest
        open == IF closed # <<>> /\ closed[Len(closed)] = ")"
                THEN SubSeq(closed, 1, Len(closed) - 1) ELSE closed
    IN /\ FirstIndex(key, "(") <= Len(key)
       /\ Len(p) >= Len(m)
       /\ SubSeq(p, 1, Len(m)) = m
       /\ (open = <<>> \/ open[1] = ",")

\* The property of the object s under name; Nil if there is none.
Property(s, name) ==
    IF \E e \in Entries(s.Properties) : e.key = name
    THEN (CHOOSE e \in Entries(s.Properties) : e.key = name).val
    ELSE Nil

\* d is raw without the white space around it.
IsTrimmed(d, raw) ==
    /\ d # <<>> => ~IsSpace(d[1]) /\ ~IsSpace(d[Len(d)])
    /\ \E lead \in 0..Len(raw) :
          /\ lead + Len(d) <= Len(raw)
          /\ SubSeq(raw, lead + 1, lead + Len(d)) = d
          /\ \A i \in 1..Len(raw) : (i <= lead \/ i > lead + Len(d)) => IsSpace(raw[i])

\* a <= b in the order of the bytes.
LexLessEq(a, b) ==
    LET shorter == IF Len(a) < Len(b) THEN Len(a) ELSE Len(b)
        same == CHOOSE n \in 0..shorter :
                    /\ SubSeq(a, 1, n) = SubSeq(b, 1, n)
                    /\ (n < shorter => a[n + 1] # b[n + 1])
    IN IF same = Len(a) THEN TRUE
       ELSE IF same = Len(b) THEN FALSE
       ELSE Byte[a[same + 1]] < Byte[b[same + 1]]

InOrder(names) ==
    \A i, j \in 1..Len(names) : i < j => LexLessEq(names[i], names[j])

Count(names, x) == Cardinality({ i \in 1..Len(names) : names[i] = x })
SameNames(a, b) == \A x \in Range(a) \cup Range(b) : Count(a, x) = Count(b, x)

\* The schemas reached from s through Properties and Items.
RECURSIVE Reached(_)
Reached(s) ==
    {s} \cup (IF s.Items = Nil THEN {} ELSE Reached(s.Items))
        \cup (IF s.Properties = Nil THEN {}
              ELSE UNION { Reached(e.val) : e \in Entries(s.Properties) })

\* s without the Required lists of the schemas reached from it.
RECURSIVE WithoutRequired(_)
WithoutRequired(s) ==
    [s EXCEPT !.Required = <<>>,
              !.Items = IF @ = Nil THEN Nil ELSE WithoutRequired(@),
              !.Properties =
                  IF @ = Nil THEN Nil
                  ELSE [@ EXCEPT !.ents = [i \in 1..Len(@) |->
                                           Entry(@[i].key, WithoutRequired(@[i].val))]]]

\* The Required lists of a hold the names of those of b, schema by schema,
\* for two schemas that differ in their Required lists at most.
RECURSIVE RequiredPermuted(_, _)
RequiredPermuted(a, b) ==
    /\ SameNames(a.Required, b.Required)
    /\ a.Items # Nil => RequiredPermuted(a.Items, b.Items)
    /\ a.Properties # Nil =>
          \A i \in 1..Len(a.Properties.ents) :
              RequiredPermuted(a.Properties.ents[i].val, b.Properties.ents[i].val)

\* The schema as the i-th call of ConvertSchema left it.
After(i) == IF i < Len(before) THEN before[i + 1] ELSE schema

----------------------------------------------------------------------------
(* Properties                                                              *)

\* C1: ToJSONSchema routes its input.  A nil input yields no schema and no
\* error.  A mapping whose `type` is one of the seven JSON schema type names
\* yields a result of mapToJSONSchema on it.  Otherwise a mapping whose
\* `properties` is a mapping yields a result of mapToJSONSchema on it with
\* the type set to object, or its error and no schema.  Every other input
\* yields a result of parsePico on it.
C1_Routing ==
    \A r \in Returned :
        /\ val = Nil => r = [schema |-> Nil, err |-> <<>>]
        /\ HasSchemaType(val) => r \in mapToJSONSchema(val)
        /\ (HasPropertiesMap(val) /\ ~HasSchemaType(val)) =>
              \E m \in mapToJSONSchema(val) :
                  \/ m.err # <<>> /\ r = m
                  \/ /\ m.err = <<>>
                     /\ r = [schema |-> [m.schema EXCEPT !.Type = <<"o", "b", "j", "e", "c", "t">>],
                             err |-> <<>>]
        /\ (val # Nil /\ ~HasSchemaType(val) /\ ~HasPropertiesMap(val)) =>
              r \in parsePico(val)

\* C1 witness: a mapping with a `properties` mapping and a `type` that is no
\* JSON schema type name was converted, and the schema's type is object.
C1_Witness ==
    /\ HasPropertiesMap(val) /\ ~HasSchemaType(val)
    /\ \E e \in Entries(val) : e.key = <<"t", "y", "p", "e">> /\ e.val = Str(<<"a", "n", "y">>)
    /\ \E r \in Succeeded : r.schema.Type = <<"o", "b", "j", "e", "c", "t">>

\* C2: a shorthand mapping whose keys are names, with or without a trailing
\* "?", yields an object with additional properties forbidden, whose
\* Properties are in the order of the mapping's entries and whose Required
\* holds the names without "?", in the order of the entries.
C2_AuthoredOrder ==
    \A r \in Succeeded :
        (/\ IsShorthandMapping(val)
         /\ \A e \in Entries(val) : KeyName(e.key) = e.key /\ e.key # <<>>) =>
            /\ r.schema.Type = <<"o", "b", "j", "e", "c", "t">>
            /\ r.schema.AdditionalProperties = FalseSchema
            /\ OMapKeys(r.schema.Properties)
                 = [i \in 1..Len(val.ents) |-> KeyProperty(val.ents[i].key)]
            /\ r.schema.Required
                 = LET plain == SelectSeq(val.ents, LAMBDA e : ~KeyOptional(e.key))
                   IN [i \in 1..Len(plain) |-> plain[i].key]

\* C3, as claimed: in a shorthand mapping that converts, the entry with the
\* key "*" sets the object's additional properties to the schema of its
\* value, and adds no property and no required name.
C3_StarKey ==
    \A r \in Succeeded :
        IsShorthandMapping(val) =>
            \A e \in Entries(val) :
                e.key = <<"*">> =>
                    /\ r.schema.AdditionalProperties
                         \in { o.schema : o \in parsePico(e.val) }
                    /\ Property(r.schema, <<"*">>) = Nil
                    /\ <<"*">> \notin Range(r.schema.Required)

\* C3, amended: in a shorthand mapping that converts, the entry with the key
\* "(*)", when no other key carries the modifier *, sets the object's
\* additional properties to the schema of its value, and adds no property
\* and no required name: every property and every required name is the
\* name of another entry.
C3_WildcardKey ==
    \A r \in Succeeded :
        IsShorthandMapping(val) =>
            \A i \in 1..Len(val.ents) :
                (/\ val.ents[i].key = <<"(", "*", ")">>
                 /\ \A j \in 1..Len(val.ents) :
                       j # i => ~KeyHasModifier(val.ents[j].key, <<"*">>)) =>
                    /\ r.schema.AdditionalProperties
                         \in { o.schema : o \in parsePico(val.ents[i].val) }
                    /\ r.schema.AdditionalProperties # FalseSchema
                    /\ \A name \in Range(OMapKeys(r.schema.Properties))
                                  \cup Range(r.schema.Required) :
                          \E j \in 1..Len(val.ents) :
                              j # i /\ KeyProperty(val.ents[j].key) = name

\* C3 witness: a mapping with the key "(*)" and another entry was converted.
C3_Witness ==
    /\ IsShorthandMapping(val)
    /\ Len(val.ents) > 1
    /\ \E e \in Entries(val) : e.key = <<"(", "*", ")">> /\ e.val = Str(<<"s", "t", "r", "i", "n", "g">>)
    /\ \A e \in Entries(val) : e.key # <<"(", "*", ")">> => ~KeyHasModifier(e.key, <<"*">>)
    /\ \E r \in Succeeded :
          /\ r.schema.AdditionalProperties = [ZeroSchema EXCEPT !.Type = <<"s", "t", "r", "i", "n", "g">>]
          /\ Len(r.schema.Properties.ents) = Len(val.ents) - 1

\* C4: a shorthand string whose text before the first comma is string,
\* boolean, null, number or integer yields a schema of that type and nothing
\* else but the description; `any` yields the empty type; the description
\* is empty without a comma and else the text after the first comma
\* without the white space around it.  Every other string yields the
\* "unsupported scalar type" error and no schema.
C4_Scalar ==
    \A r \in Returned :
        val.k = "string" =>
            LET comma == FirstIndex(val.s, ",")
                token == SubSeq(val.s, 1, comma - 1)
                raw == SubSeq(val.s, comma + 1, Len(val.s))
                described == [ZeroSchema EXCEPT !.Description = r.schema.Description]
            IN /\ token \in { <<"s", "t", "r", "i", "n", "g">>, <<"b", "o", "o", "l", "e", "a", "n">>, <<"n", "u", "l", "l">>, <<"n", "u", "m", "b", "e", "r">>,
                              <<"i", "n", "t", "e", "g", "e", "r">> } =>
                     /\ r.err = <<>>
                     /\ r.schema = [described EXCEPT !.Type = token]
                     /\ IsTrimmed(r.schema.Description, raw)
               /\ token = <<"a", "n", "y">> =>
                     /\ r.err = <<>>
                     /\ r.schema = described
                     /\ IsTrimmed(r.schema.Description, raw)
               /\ token \notin { <<"s", "t", "r", "i", "n", "g">>, <<"b", "o", "o", "l", "e", "a", "n">>, <<"n", "u", "l", "l">>, <<"n", "u", "m", "b", "e", "r">>,
                                 <<"i", "n", "t", "e", "g", "e", "r">>, <<"a", "n", "y">> } =>
                     /\ r.schema = Nil
                     /\ Len(r.err) = 1
                     /\ r.err[1].kind = "unsupported scalar type"
                     /\ r.err[1].arg = Str(token)

\* C4 witness: a string with a type, a comma and a description between
\* white space was converted.
C4_Witness ==
    /\ val = Str(<<"i", "n", "t", "e", "g", "e", "r", ",", "\t", " ", "d", " ", "e", "\t", " ">>)
    /\ \E r \in Succeeded : r.schema.Description = <<"d", " ", "e">>

\* The "enum value is not an array" error.
IsEnumError(r) ==
    r.schema = Nil /\ Len(r.err) = 1 /\ r.err[1].kind = "enum value is not an array"

\* What C5 says of an enum entry whose value is a sequence, in a mapping
\* that converted to s.
EnumProperty(s, e) ==
    LET name == KeyProperty(e.key)
    IN IF KeyOptional(e.key)
       THEN /\ Property(s, name) # Nil
            /\ Property(s, name).Enum = Slice(e.val.xs \o <<Nil>>)
            /\ name \notin Range(s.Required)
       ELSE /\ Property(s, name) # Nil
            /\ Property(s, name).Enum = e.val
            /\ name \in Range(s.Required)

\* C5, as claimed: in a shorthand mapping, an entry whose key carries the
\* modifier enum and whose value is a sequence L yields, if the mapping
\* converts, a property whose Enum is L and whose name is required, or, for
\* an optional key, whose Enum is L and a null and whose name is not
\* required.  If the value is no sequence the conversion fails with the
\* "enum value is not an array" error.
C5_EnumAsClaimed ==
    \A r \in Returned :
        IsShorthandMapping(val) =>
            \A e \in Entries(val) :
                KeyHasModifier(e.key, <<"e", "n", "u", "m">>) =>
                    /\ (e.val.k = "slice" /\ r.err = <<>>) => EnumProperty(r.schema, e)
                    /\ e.val.k # "slice" => IsEnumError(r)

\* C5, amended: in a shorthand mapping, take an entry whose key carries the
\* modifier enum after a text that is not empty, with a name that is the
\* name of no other entry.  If the mapping converts, the value is a sequence L, and the
\* property's Enum is L and its name is required, or, for an optional key,
\* its Enum is L and a null and its name is not required.  If the value is
\* no sequence the conversion fails with no schema; when the entry is the
\* only one, the error is the value's own if the value does not convert,
\* and else the "enum value is not an array" error.
C5_Enum ==
    \A r \in Returned :
        IsShorthandMapping(val) =>
            \A i \in 1..Len(val.ents) :
                LET e == val.ents[i]
                IN (/\ KeyHasModifier(e.key, <<"e", "n", "u", "m">>)
                    /\ KeyName(e.key) # <<>>
                    /\ \A j \in 1..Len(val.ents) :
                          j # i => KeyProperty(val.ents[j].key) # KeyProperty(e.key)) =>
                       /\ r.err = <<>> => e.val.k = "slice" /\ EnumProperty(r.schema, e)
                       /\ e.val.k # "slice" => r.err # <<>> /\ r.schema = Nil
                       /\ (e.val.k # "slice" /\ Len(val.ents) = 1) =>
                             IF \E o \in parsePico(e.val) : o.err # <<>>
                             THEN r \in parsePico(e.val)
                             ELSE IsEnumError(r)

\* C5 witness: an optional enum entry with the sequence ["r"], next to
\* another entry, converted to a property with the enum ["r", null].
C5_Witness ==
    /\ IsShorthandMapping(val)
    /\ Len(val.ents) > 1
    /\ \A e \in Entries(val) : e.key # <<"c">>
    /\ \E e \in Entries(val) : e.key = <<"c", "?", "(", "e", "n", "u", "m", ")">> /\ e.val = Slice(<<Str(<<"r">>)>>)
    /\ \E r \in Succeeded :
          Property(r.schema, <<"c">>).Enum = Slice(<<Str(<<"r">>), Nil>>)

\* The object schemas of a schema: itself, and those of its properties, its
\* items and its additional properties.
Objects(s) == { n \in Nodes(s) : n.Type = <<"o", "b", "j", "e", "c", "t">> }

\* C6: in every object schema of a schema converted from shorthand, every
\* required name is the name of a property.
C6_RequiredAreProperties ==
    \A r \in Succeeded :
        (IsMapping(val) => IsShorthandMapping(val)) =>
            \A n \in Objects(r.schema) :
                \A name \in Range(n.Required) : Property(n, name) # Nil

\* C7: in a schema converted from shorthand, no schema has an Enum that is
\* empty.
C7_EnumNotEmpty ==
    \A r \in Succeeded :
        (IsMapping(val) => IsShorthandMapping(val)) =>
            \A n \in Nodes(r.schema) : n.Enum # Nil => Len(n.Enum.xs) > 0

\* C8: a call of ConvertSchema leaves the Required list of the schema, and
\* of every schema reached from it through Properties and Items, in the
\* order of the bytes and with the names it had; it changes nothing else,
\* the order of the Properties included.  A second call changes nothing and
\* returns what the first returned.
C8_Normalizer ==
    \A i \in 1..Len(before) :
        /\ \A n \in Reached(After(i)) : InOrder(n.Required)
        /\ WithoutRequired(After(i)) = WithoutRequired(before[i])
        /\ RequiredPermuted(After(i), before[i])
        /\ i > 1 => After(i) = before[i] /\ canon[i] = canon[i - 1]

\* C8 witness: ConvertSchema was called twice on a schema whose properties
\* or items held a Required list out of order.
C8_Witness ==
    /\ Len(before) = 2
    /\ Len(canon) = 2 /\ canon[1].err = ""
    /\ \E n \in Reached(before[1]) \ {before[1]} : ~InOrder(n.Required)
    /\ before[1] # schema

\* The uint64 a whole number from 0 to 2^31 - 1 is.
IsUint64(u, n) ==
    u = [k |-> "uint64", limbs |-> <<0, 0, n \div 65536, n % 65536>>]

\* C9: in a map that looks like a JSON schema, minLength and maxItems are
\* stored only for a whole number that is not negative, and then as that
\* number; for every other value, a negative integer included, the
\* conversion fails and returns no schema.
C9_Unsigned ==
    \A r \in Returned :
        (HasSchemaType(val) \/ HasPropertiesMap(val)) =>
            \A e \in Entries(val) :
                e.key \in { <<"m", "i", "n", "L", "e", "n", "g", "t", "h">>, <<"m", "a", "x", "I", "t", "e", "m", "s">> } =>
                    LET whole == e.val.k \in {"int", "uint", "float64"} /\ e.val.n >= 0
                        stored == IF e.key = <<"m", "i", "n", "L", "e", "n", "g", "t", "h">> THEN r.schema.MinLength
                                  ELSE r.schema.MaxItems
                    IN /\ r.err = <<>> => whole /\ IsUint64(stored, e.val.n)
                       /\ ~whole => r.err # <<>> /\ r.schema = Nil

\* C10: a call that fails fails the same way when it is made again on the
\* same input.
C10_SameError ==
    \A i, j \in 1..Len(rets) : rets[i].err # <<>> => rets[j] = rets[i]

====
